---- MODULE Spec2Model ----
(***************************************************************************)
(* Model of the Ollama models explorer: the detail-page extractor and      *)
(* merger (fetchModelDetails), the listing extractor, the limit query      *)
(* parameter, the CORS proxy handler, the in-memory dataCache and the      *)
(* server and client scrape orchestrators.                                 *)
(*                                                                         *)
(* Text is modelled as a sequence of tokens (each token a TLA+ string):     *)
(* the characters "/" ":" "·" and " " are tokens of their own, any other   *)
(* token is a maximal run of other characters; the empty sequence is the   *)
(* empty string. String functions (trim, split, replace, startsWith,       *)
(* includes, parseInt) are computed on these sequences.                    *)
(***************************************************************************)
EXTENDS Integers, Sequences, FiniteSets, TLC

VARIABLES
    \* fetchModelDetails applied to one detail response
    detailResp,      \* the response of the detail-page request
    detailPc,        \* "call" before fetchModelDetails returns, "returned" after
    detailOut,       \* the returned ModelVersion list
    \* the limit query parameter of the scrape handlers
    queryLimit,      \* req.query.limit
    limitPc,         \* "call" before the limit is computed, "returned" after
    limitOut,        \* the effective limit
    \* the proxy handler
    proxy,           \* per request: its method, url, position, response status
    upstream,        \* the urls the proxy has fetched upstream, in order
    \* the listing extraction of both scrapers applied to one listing page
    listItems,       \* the li[x-test-model] elements of the page
    listLimit,       \* the limit the scraper runs with
    listPc,          \* per scraper: "call" or "returned"
    listOut,         \* per scraper: the models it built
    \* the server process and the browser
    mode,            \* the workload explored: "single", "overlap" or "client"
    cache,           \* cachedModels of dataCache
    now,             \* the number of Date stamps taken for lastUpdated
    runs,            \* the scrape requests received: one performScraping each
    posts,           \* the /api/cache-models requests answered
    client,          \* scrapeOllamaModels in the browser
    written,         \* history: the result sets stored by successful writes
    logged,          \* history: the log entries added since logs was last emptied
    \* the page (Home)
    initialLoading,  \* the models have not been loaded yet
    tableModels,     \* models: the loaded models
    searchTerm,
    sortField,
    sortDirection,
    activeCapabilityFilter,
    clicks           \* history: the header clicks, each with the sort state it left

detailVars == <<detailResp, detailPc, detailOut>>
limitVars == <<queryLimit, limitPc, limitOut>>
proxyVars == <<proxy, upstream>>
listVars == <<listItems, listLimit, listPc, listOut>>
sysVars == <<mode, cache, now, runs, posts, client, written, logged>>
uiVars == <<initialLoading, tableModels, searchTerm, sortField, sortDirection,
            activeCapabilityFilter, clicks>>
vars == <<detailResp, detailPc, detailOut, queryLimit, limitPc, limitOut,
          proxy, upstream, listItems, listLimit, listPc, listOut,
          mode, cache, now, runs, posts, client, written, logged,
          initialLoading, tableModels, searchTerm, sortField, sortDirection,
          activeCapabilityFilter, clicks>>

\* A selector that matches nothing, or an absent attribute (undefined / null).
\* It is a reserved one-token text, so it compares with any text.
NoElem == <<"<none>">>

\* Bounds of the detail pages explored
MaxAnchors == 2
MaxRows == 2
\* Longest limit query string explored
MaxLimitLen == 3
\* Requests the proxy handler receives
MaxProxyRequests == 2
\* Items of a listing page when the listing extraction is explored alone
MaxListItems == 2
\* Scrape requests the server receives in the workload "overlap"
MaxRuns == 2
\* Items of the listing page a scrape run meets in the workload "overlap"
MaxOverlapItems == 1
\* Items of the listing page the scrape run meets in the workload "single"
MaxServerItems == 3
\* Items of the listing page the client scrape may meet
MaxClientItems == 9
\* 5-second progress reports of one run while the main page is awaited
MaxTicks == 1
\* Requests to /api/cache-models from outside the browser scrape
MaxPosts == 1

----------------------------------------------------------------------------
(* String helpers *)

RECURSIVE TrimStart(_)
TrimStart(t) ==
    IF t /= <<>> /\ Head(t) = " " THEN TrimStart(Tail(t)) ELSE t

RECURSIVE TrimEnd(_)
TrimEnd(t) ==
    IF t /= <<>> /\ t[Len(t)] = " " THEN TrimEnd(SubSeq(t, 1, Len(t) - 1)) ELSE t

\* String.prototype.trim
Trim(t) == TrimEnd(TrimStart(t))

\* String.prototype.startsWith
StartsWith(t, prefix) ==
    /\ Len(t) >= Len(prefix)
    /\ SubSeq(t, 1, Len(prefix)) = prefix

\* the positions at which needle occurs in t
Occurrences(t, needle) ==
    {i \in 1..(Len(t) - Len(needle) + 1) : SubSeq(t, i, i + Len(needle) - 1) = needle}

\* String.prototype.includes
Includes(t, needle) == Occurrences(t, needle) /= {}

FirstOccurrence(t, needle) ==
    CHOOSE i \in Occurrences(t, needle) : \A j \in Occurrences(t, needle) : i <= j

\* String.prototype.split on a one-token separator: always at least one part
RECURSIVE Split(_, _)
Split(t, sep) ==
    IF ~Includes(t, <<sep>>) THEN <<t>>
    ELSE LET i == FirstOccurrence(t, <<sep>>)
         IN <<SubSeq(t, 1, i - 1)>> \o Split(SubSeq(t, i + 1, Len(t)), sep)

\* String.prototype.replace(needle, ''): removes the first occurrence only
RemoveFirst(t, needle) ==
    IF ~Includes(t, needle) THEN t
    ELSE LET i == FirstOccurrence(t, needle)
         IN SubSeq(t, 1, i - 1) \o SubSeq(t, i + Len(needle), Len(t))

\* cheerio .text() / textContent of a selection: '' when nothing matched
TextOf(e) == IF e = NoElem THEN <<>> ELSE e

\* .map(s => s.trim())
TrimEach(ss) == [i \in 1..Len(ss) |-> Trim(ss[i])]

RECURSIVE Flatten(_)
Flatten(ss) == IF ss = <<>> THEN <<>> ELSE Head(ss) \o Flatten(Tail(ss))

\* all sequences over S of length at most n
SeqsUpTo(S, n) == UNION {[1..k -> S] : k \in 0..n}

\* 'https://ollama.com'
Origin == <<"https", ":", "/", "/", "ollama.com">>
\* '/library/'
LibraryPrefix == <<"/", "library", "/">>
ContextWindow == <<"context", " ", "window">>

----------------------------------------------------------------------------
(* fetchModelDetails: extraction of the two layouts and the merge *)

\* One anchor matched by a[href^="/library/"].sm\:hidden (mobile layout)
MobileEntry(a) ==
    LET href == a.href
        name == Trim(TextOf(a.name))
        infoText == Trim(TextOf(a.info))
        parts == TrimEach(Split(infoText, "·"))
    IN  IF href = NoElem \/ ~Includes(href, <<":">>) THEN <<>>
        ELSE IF infoText = <<>> THEN <<>>
        ELSE IF Len(parts) < 3 THEN <<>>
        ELSE << [name |-> name,
                 size |-> parts[1],
                 context |-> Trim(RemoveFirst(parts[2], ContextWindow)),
                 input |-> parts[3],
                 updated |-> IF Len(parts) >= 4 THEN parts[4] ELSE <<>>,
                 isLatest |-> a.latest,
                 url |-> Origin \o href] >>

IsMobileAnchor(a) ==
    a.href /= NoElem /\ StartsWith(a.href, LibraryPrefix) /\ a.smHidden

ExtractMobile(page) ==
    Flatten([i \in 1..Len(page.anchors) |->
                IF IsMobileAnchor(page.anchors[i]) THEN MobileEntry(page.anchors[i])
                ELSE <<>>])

\* One div matched by div.hidden.group (desktop grid)
DesktopEntry(row) ==
    LET href == row.link.href
        name == Trim(TextOf(row.link.text))
        cells == row.cells
    IN  IF ~({"sm:grid", "sm:grid-cols-12"} \subseteq row.classes) THEN <<>>
        ELSE IF href = NoElem \/ ~Includes(href, <<":">>) THEN <<>>
        ELSE IF Len(cells) < 3 THEN <<>>
        ELSE << [name |-> name,
                 size |-> Trim(cells[1]),
                 context |-> Trim(cells[2]),
                 input |-> Trim(cells[3]),
                 updated |-> <<>>,
                 isLatest |-> row.latest,
                 url |-> Origin \o href] >>

IsDesktopRow(row) == {"hidden", "group"} \subseteq row.classes

ExtractDesktop(page) ==
    Flatten([i \in 1..Len(page.rows) |->
                IF IsDesktopRow(page.rows[i]) THEN DesktopEntry(page.rows[i])
                ELSE <<>>])

\* versions: the mobile entries followed by the desktop entries
ExtractVersions(page) == ExtractMobile(page) \o ExtractDesktop(page)

\* The one key of Object.prototype that is an accessor: reading
\* mergedVersions['__proto__'] yields the prototype object (truthy) and
\* assigning it sets the prototype, so no own property is ever created.
ProtoKey == <<"__proto__">>

\* mergedVersions is modelled by its own properties in insertion order
HasOwn(merged, key) == \E i \in 1..Len(merged) : merged[i].name = key

OwnIndex(merged, key) == CHOOSE i \in 1..Len(merged) : merged[i].name = key

\* value || fallback on strings
OrElse(value, fallback) == IF value /= <<>> THEN value ELSE fallback

\* { ...prev, ...version, updated: version.updated || prev.updated }
MergeInto(prev, version) ==
    [version EXCEPT !.updated = OrElse(version.updated, prev.updated)]

\* One iteration of versions.forEach
MergeStep(merged, version) ==
    IF version.name = ProtoKey THEN merged
    ELSE IF HasOwn(merged, version.name)
    THEN [merged EXCEPT ![OwnIndex(merged, version.name)] =
                            MergeInto(merged[OwnIndex(merged, version.name)], version)]
    ELSE Append(merged, version)

RECURSIVE MergeVersions(_, _)
MergeVersions(merged, versions) ==
    IF versions = <<>> THEN merged
    ELSE MergeVersions(MergeStep(merged, Head(versions)), Tail(versions))

\* fetchModelDetails: any failure yields the empty list
FetchModelDetails(resp) ==
    IF resp.kind /= "ok" THEN <<>>
    ELSE MergeVersions(<<>>, ExtractVersions(resp.page))

----------------------------------------------------------------------------
(* The limit query parameter *)

\* JavaScript numbers as far as the limit needs them
Num(n) == [kind |-> "int", v |-> n]
Infinity == [kind |-> "inf", v |-> 0]
NaN == [kind |-> "nan", v |-> 0]

Digits == {"0", "1", "2", "3", "4", "5", "6", "7", "8", "9"}
DigitVal(d) ==
    CASE d = "0" -> 0 [] d = "1" -> 1 [] d = "2" -> 2 [] d = "3" -> 3 [] d = "4" -> 4
      [] d = "5" -> 5 [] d = "6" -> 6 [] d = "7" -> 7 [] d = "8" -> 8 [] d = "9" -> 9

\* the longest prefix of decimal digits
RECURSIVE DigitPrefix(_)
DigitPrefix(t) ==
    IF t /= <<>> /\ Head(t) \in Digits THEN <<Head(t)>> \o DigitPrefix(Tail(t)) ELSE <<>>

RECURSIVE DecimalValue(_)
DecimalValue(ds) ==
    IF ds = <<>> THEN 0
    ELSE 10 * DecimalValue(SubSeq(ds, 1, Len(ds) - 1)) + DigitVal(ds[Len(ds)])

\* parseInt(string) without a radix, on strings that have no "0x" prefix:
\* leading white space is skipped, then an optional sign, then the longest
\* prefix of digits; NaN when there is no digit.
ParseInt(t) ==
    LET s == TrimStart(t)
        neg == s /= <<>> /\ Head(s) = "-"
        rest == IF s /= <<>> /\ Head(s) \in {"-", "+"} THEN Tail(s) ELSE s
        ds == DigitPrefix(rest)
    IN  IF ds = <<>> THEN NaN
        ELSE Num(IF neg THEN 0 - DecimalValue(ds) ELSE DecimalValue(ds))

\* A query parameter: absent (undefined), one string, or, when the parameter
\* is repeated, an array of strings (s is then String(array))
Absent == [kind |-> "absent", s |-> <<>>]
Str(t) == [kind |-> "string", s |-> t]
Arr(t) == [kind |-> "array", s |-> t]

\* JavaScript truthiness of a query parameter
Truthy(q) == q.kind = "array" \/ (q.kind = "string" /\ q.s /= <<>>)

\* n || Infinity
OrInfinity(n) == IF n.kind = "nan" \/ (n.kind = "int" /\ n.v = 0) THEN Infinity ELSE n

\* Math.max(1, n)
MaxOne(n) == IF n.kind = "inf" THEN Infinity ELSE IF n.v < 1 THEN Num(1) ELSE n

\* req.query.limit ? Math.max(1, parseInt(req.query.limit) || Infinity) : Infinity
EffectiveLimit(q) ==
    IF Truthy(q) THEN MaxOne(OrInfinity(ParseInt(q.s))) ELSE Infinity

LimitChars == {"0", "1", "2", "-", " ", "a"}

\* limit absent or given once
QueryLimits == {Absent} \cup {Str(t) : t \in SeqsUpTo(LimitChars, MaxLimitLen)}

\* the page takes no part: the values of its useState calls
UiIdle ==
    /\ initialLoading = TRUE
    /\ tableModels = <<>>
    /\ searchTerm = <<>>
    /\ sortField = "name"
    /\ sortDirection = "asc"
    /\ activeCapabilityFilter = NoElem
    /\ clicks = <<>>

ProxyIdle ==
    /\ proxy = <<>>
    /\ upstream = <<>>

\* limit: undefined
Undefined == [kind |-> "undef", v |-> 0]

\* cachedModels = null
NoCache ==
    [present |-> FALSE, models |-> <<>>, src |-> <<"none", 0>>, limit |-> Undefined,
     status |-> "ready", logs |-> <<>>,
     progress |-> [set |-> FALSE, num |-> 0, den |-> 1, task |-> ""],
     lastUpdated |-> 0]

\* the browser takes no part
ClientOff ==
    [pc |-> "off", limit |-> Infinity, items |-> <<>>, models |-> <<>>, start |-> 0,
     task |-> <<>>,
     results |-> <<>>, completedDetails |-> 0, failedDetails |-> {}, requests |-> <<>>]

SysIdle ==
    /\ mode = "none"
    /\ cache = NoCache
    /\ now = 0
    /\ runs = <<>>
    /\ posts = <<>>
    /\ client = ClientOff
    /\ written = <<>>
    /\ logged = <<>>

ListIdle ==
    /\ listItems = <<>>
    /\ listLimit = Infinity
    /\ listPc = [s \in {"server", "client"} |-> "idle"]
    /\ listOut = [s \in {"server", "client"} |-> <<>>]

LimitIdle ==
    /\ queryLimit = Absent
    /\ limitPc = "idle"
    /\ limitOut = Infinity

DetailIdle ==
    /\ detailResp = [kind |-> "idle", page |-> [anchors |-> <<>>, rows |-> <<>>]]
    /\ detailPc = "idle"
    /\ detailOut = <<>>

InitLimit ==
    /\ queryLimit \in QueryLimits
    /\ limitPc = "call"
    /\ limitOut = Infinity
    /\ DetailIdle
    /\ ProxyIdle
    /\ ListIdle
    /\ SysIdle
    /\ UiIdle

LimitReturn ==
    /\ limitPc = "call"
    /\ limitOut' = EffectiveLimit(queryLimit)
    /\ limitPc' = "returned"
    /\ UNCHANGED <<queryLimit, detailVars, proxyVars, listVars, uiVars, sysVars>>

NextLimit == LimitReturn

SpecLimit == InitLimit /\ [][NextLimit]_vars

\* the parameter is one string that denotes a positive integer count:
\* only decimal digits (white space around them aside), value at least 1
DenotesPositiveCount(q) ==
    /\ q.kind = "string"
    /\ LET t == Trim(q.s)
       IN  /\ t /= <<>>
           /\ \A i \in 1..Len(t) : t[i] \in Digits
           /\ DecimalValue(t) >= 1

\* C9: the effective limit is unlimited or an integer >= 1, and it is
\* unlimited exactly when the parameter is not provided or is invalid
\* (does not denote a positive integer count).
LimitUnlimitedIffInvalid ==
    limitPc = "returned" =>
        /\ limitOut = Infinity \/ (limitOut.kind = "int" /\ limitOut.v >= 1)
        /\ limitOut = Infinity <=> ~DenotesPositiveCount(queryLimit)

----------------------------------------------------------------------------
(* Extraction of the listing page, li[x-test-model] *)

\* n >= limit
AtLeast(n, limit) == limit.kind = "int" /\ n >= limit.v

\* Math.min(limit, n)
MinLimit(limit, n) == IF limit.kind = "int" /\ limit.v < n THEN limit.v ELSE n

\* slice that stops one element early
SliceShort(s, from, to) == SubSeq(s, from + 1, MinLimit(to, Len(s)) - 1)

\* Array.prototype.slice(from, to) with 0-based from, and to a count or Infinity
Slice(s, from, to) == SubSeq(s, from + 1, MinLimit(to, Len(s)))

\* ServerItem without the default of the href: origin + undefined
ServerItemNoDefault(el) ==
    [name |-> Trim(TextOf(el.title)),
     url |-> Origin \o el.href,
     description |-> Trim(TextOf(el.desc)),
     capabilities |-> TrimEach(el.caps),
     pulls |-> Trim(TextOf(el.pulls)),
     tags |-> Trim(TextOf(el.tags)),
     updated |-> Trim(TextOf(el.updated)),
     versions |-> <<>>]

\* One li[x-test-model] element as the server scraper reads it (cheerio)
ServerItem(el) ==
    [name |-> Trim(TextOf(el.title)),
     url |-> Origin \o OrElse(TextOf(el.href), <<>>),
     description |-> Trim(TextOf(el.desc)),
     capabilities |-> TrimEach(el.caps),
     pulls |-> Trim(TextOf(el.pulls)),
     tags |-> Trim(TextOf(el.tags)),
     updated |-> Trim(TextOf(el.updated)),
     versions |-> <<>>]

\* the texts that are not empty: if (capText) capabilities.push(capText)
RECURSIVE NonEmpty(_)
NonEmpty(ss) ==
    IF ss = <<>> THEN <<>>
    ELSE (IF Head(ss) /= <<>> THEN <<Head(ss)>> ELSE <<>>) \o NonEmpty(Tail(ss))

\* One li[x-test-model] element as the client scraper reads it (DOMParser)
ClientItem(el) ==
    [name |-> OrElse(Trim(TextOf(el.title)), <<>>),
     url |-> Origin \o OrElse(TextOf(el.href), <<>>),
     description |-> OrElse(Trim(TextOf(el.desc)), <<>>),
     capabilities |-> NonEmpty(TrimEach(el.caps)),
     pulls |-> OrElse(Trim(TextOf(el.pulls)), <<>>),
     tags |-> OrElse(Trim(TextOf(el.tags)), <<>>),
     updated |-> OrElse(Trim(TextOf(el.updated)), <<>>),
     versions |-> <<>>]

\* $('li[x-test-model]').each(...): stops once processedCount >= limit
RECURSIVE ServerEach(_, _, _, _)
ServerEach(items, limit, processedCount, models) ==
    IF items = <<>> \/ AtLeast(processedCount, limit) THEN models
    ELSE ServerEach(Tail(items), limit, processedCount + 1,
                    Append(models, ServerItem(Head(items))))

ServerListing(items, limit) == ServerEach(items, limit, 0, <<>>)

\* for (let i = 0; i < Math.min(modelElements.length, limit); i++)
RECURSIVE ClientLoop(_, _, _, _)
ClientLoop(items, limit, i, models) ==
    IF ~(i < MinLimit(limit, Len(items))) THEN models
    ELSE ClientLoop(items, limit, i + 1, Append(models, ClientItem(items[i + 1])))

ClientListing(items, limit) == ClientLoop(items, limit, 0, <<>>)

Listing(scraper, items, limit) ==
    IF scraper = "server" THEN ServerListing(items, limit) ELSE ClientListing(items, limit)

\* Listing items explored
HrefOf(m) == LibraryPrefix \o <<m>>

Item(m) ==
    [title |-> <<" ", m, " ">>, href |-> HrefOf(m), desc |-> <<"A", " ", "model">>,
     caps |-> << <<"tools">>, <<" ">> >>, pulls |-> <<"1M">>, tags |-> <<"12">>,
     updated |-> <<"2", " ", "days", " ", "ago">>]

ItemFields == {"title", "href", "desc", "pulls", "tags", "updated"}

\* the item m without the element (or attribute) of the fields in missing
ItemWithout(m, missing) ==
    [f \in DOMAIN Item(m) |-> IF f \in missing THEN NoElem ELSE Item(m)[f]]

ListItemChoices ==
    {Item("llama3")} \cup {ItemWithout("qwen", {f}) : f \in ItemFields}
        \cup {ItemWithout("phi", ItemFields)}

ListLimits == {Infinity, Num(1), Num(2)}

InitListing ==
    /\ listItems \in SeqsUpTo(ListItemChoices, MaxListItems)
    /\ listLimit \in ListLimits
    /\ listPc = [s \in {"server", "client"} |-> "call"]
    /\ listOut = [s \in {"server", "client"} |-> <<>>]
    /\ DetailIdle
    /\ LimitIdle
    /\ ProxyIdle
    /\ SysIdle
    /\ UiIdle

ListingReturn(scraper) ==
    /\ listPc[scraper] = "call"
    /\ listOut' = [listOut EXCEPT ![scraper] = Listing(scraper, listItems, listLimit)]
    /\ listPc' = [listPc EXCEPT ![scraper] = "returned"]
    /\ UNCHANGED <<listItems, listLimit, detailVars, limitVars, proxyVars, sysVars, uiVars>>

NextListing == \E s \in {"server", "client"} : ListingReturn(s)

SpecListing == InitListing /\ [][NextListing]_vars

\* the record field that holds what is read from an element of the item
RecordField(f) ==
    CASE f = "title" -> "name" [] f = "desc" -> "description" [] f = "href" -> "url"
      [] OTHER -> f

\* C6: when a listing item lacks the element of a field (name, description,
\* pulls, tags, updated, link href) the scraper still emits exactly one
\* record for that item, in page order, with that field the empty string
\* (the href that follows the origin in url is empty) and versions empty,
\* and goes on with the remaining items (up to the limit).
SilentEmptyFields ==
    \A s \in {"server", "client"} :
        listPc[s] = "returned" =>
            /\ Len(listOut[s]) = IF listLimit.kind = "int" /\ listLimit.v < Len(listItems)
                                  THEN listLimit.v ELSE Len(listItems)
            /\ \A i \in 1..Len(listOut[s]) :
                  /\ listOut[s][i].versions = <<>>
                  /\ \A f \in ItemFields \ {"href"} :
                        IF listItems[i][f] = NoElem
                        THEN listOut[s][i][RecordField(f)] = <<>>
                        ELSE listOut[s][i][RecordField(f)] = Trim(listItems[i][f])
                  /\ IF listItems[i].href = NoElem
                     THEN /\ listOut[s][i].url = Origin
                          /\ RemoveFirst(listOut[s][i].url, Origin) = <<>>
                     ELSE listOut[s][i].url = Origin \o listItems[i].href

\* C6 witness: an item without any element precedes another item, and both
\* scrapers have returned a record for each
SilentEmptyFieldsWitness ==
    /\ Len(listItems) = 2
    /\ \A f \in ItemFields : listItems[1][f] = NoElem
    /\ \A s \in {"server", "client"} : listPc[s] = "returned" /\ Len(listOut[s]) = 2

----------------------------------------------------------------------------
(* The proxy handler, /api/proxy *)

\* 'https://ollama.com/'
AllowedPrefix == Origin \o <<"/">>

Methods == {"GET", "POST", "HEAD"}

ProxyUrls ==
    { Absent,
      Str(<<>>),
      Arr(AllowedPrefix \o <<"search", ",", "x">>),
      Str(AllowedPrefix \o <<"search">>),
      Str(AllowedPrefix),
      Str(Origin),
      Str(<<"https", ":", "/", "/", "ollama.com.evil.io", "/">>),
      Str(<<"http", ":", "/", "/", "ollama.com", "/">>),
      Str(<<"/", "etc", "/", "passwd">>) }

\* ProxyGate without the check of the method
ProxyGateAnyMethod(method, url) ==
    IF ~Truthy(url) \/ url.kind /= "string" THEN 400
    ELSE IF ~StartsWith(url.s, AllowedPrefix) THEN 403
    ELSE 0

\* The handler up to its first await: the status it answers with at once,
\* or 0 when it goes on to fetch(url)
ProxyGate(method, url) ==
    IF method /= "GET" THEN 405
    ELSE IF ~Truthy(url) \/ url.kind /= "string" THEN 400
    ELSE IF ~StartsWith(url.s, AllowedPrefix) THEN 403
    ELSE 0

\* A request arrives; the handler runs to its first await or to its return
ProxyRequest(method, url) ==
    /\ Len(proxy) < MaxProxyRequests
    /\ LET gate == ProxyGate(method, url)
       IN  /\ proxy' = Append(proxy,
                 [method |-> method, url |-> url,
                  pc |-> IF gate = 0 THEN "fetching" ELSE "responded",
                  status |-> gate, fetched |-> gate = 0])
           /\ upstream' = IF gate = 0 THEN Append(upstream, url.s) ELSE upstream
    /\ UNCHANGED <<detailVars, limitVars, listVars, uiVars, sysVars>>

\* The upstream fetch of request r settles: 200 with the html, or 500 when
\* fetch rejects or the upstream status is not ok
ProxyUpstreamSettles(r, outcome) ==
    /\ proxy[r].pc = "fetching"
    /\ proxy' = [proxy EXCEPT ![r].pc = "responded",
                              ![r].status = IF outcome = "ok" THEN 200 ELSE 500]
    /\ UNCHANGED <<upstream, detailVars, limitVars, listVars, uiVars, sysVars>>

InitProxy ==
    /\ ProxyIdle
    /\ DetailIdle
    /\ LimitIdle
    /\ ListIdle
    /\ SysIdle
    /\ UiIdle

NextProxy ==
    \/ \E m \in Methods, u \in ProxyUrls : ProxyRequest(m, u)
    \/ \E r \in 1..Len(proxy), o \in {"ok", "HttpError", "NetworkError"} :
          ProxyUpstreamSettles(r, o)

SpecProxy == InitProxy /\ [][NextProxy]_vars

\* C8: an upstream fetch is issued only when the method is GET and url is a
\* string starting with 'https://ollama.com/'; a non-GET request yields 405,
\* a missing (absent or empty) or non-string url yields 400, any other url
\* yields 403, each without any upstream request.
ProxyAllowlist ==
    /\ \A r \in 1..Len(proxy) :
         LET q == proxy[r]
             allowed == /\ q.method = "GET"
                        /\ q.url.kind = "string"
                        /\ StartsWith(q.url.s, AllowedPrefix)
         IN  /\ q.fetched <=> allowed
             /\ q.method /= "GET" => q.status = 405
             /\ (q.method = "GET" /\ (q.url = Absent \/ q.url = Str(<<>>)
                                        \/ q.url.kind /= "string")) => q.status = 400
             /\ (q.method = "GET" /\ q.url.kind = "string" /\ q.url.s /= <<>>
                    /\ ~StartsWith(q.url.s, AllowedPrefix)) => q.status = 403
             /\ q.status \in {405, 400, 403} => q.pc = "responded"
    /\ Len(upstream) = Cardinality({r \in 1..Len(proxy) : proxy[r].fetched})
    /\ \A i \in 1..Len(upstream) : StartsWith(upstream[i], AllowedPrefix)

\* C8 witness: one request refused with 403 and one fetched upstream
ProxyAllowlistWitness ==
    /\ \E r \in 1..Len(proxy) : proxy[r].status = 403 /\ ~proxy[r].fetched
    /\ \E r \in 1..Len(proxy) : proxy[r].status = 200 /\ proxy[r].fetched

----------------------------------------------------------------------------
(* Detail pages explored *)

HrefVersion == LibraryPrefix \o <<"m", ":", "tag">>
HrefModel == LibraryPrefix \o <<"m">>
InfoFull ==
    <<"5.2GB", " ", "·", " ", "128K", " ">> \o ContextWindow
        \o <<" ", "·", " ", "Text", " ", "·", " ", "1", " ", "month", " ", "ago">>
InfoNoUpdated ==
    <<"4GB", " ", "·", " ", "8K", " ">> \o ContextWindow \o <<" ", "·", " ", "Text">>
InfoNoSize == <<"·", " ">> \o ContextWindow \o <<" ", "·", " ", "Text">>
InfoShort == <<"5.2GB", " ", "·", " ", "Text">>
GridClasses == {"hidden", "group", "sm:grid", "sm:grid-cols-12"}

Anchor(href, hidden, name, info) ==
    [href |-> href, smHidden |-> hidden, name |-> name, info |-> info, latest |-> FALSE]

Anchors ==
    { Anchor(HrefVersion, TRUE, <<" ", "8b", " ">>, InfoFull),
      Anchor(HrefVersion, TRUE, <<"8b">>, InfoNoSize),
      Anchor(HrefVersion, TRUE, <<"70b">>, InfoNoUpdated),
      Anchor(HrefVersion, TRUE, ProtoKey, InfoFull),
      Anchor(HrefVersion, TRUE, NoElem, InfoShort),
      Anchor(HrefModel, TRUE, <<"8b">>, InfoFull),
      Anchor(HrefVersion, FALSE, <<"8b">>, NoElem) }

Row(classes, href, text, cells) ==
    [classes |-> classes, link |-> [href |-> href, text |-> text],
     cells |-> cells, latest |-> TRUE]

Rows ==
    { Row(GridClasses, HrefVersion, <<"8b">>, << <<"5.2GB">>, <<"128K">>, <<"Text">> >>),
      Row(GridClasses, HrefVersion, <<"8b", " ">>, << <<" ">>, <<>>, <<>> >>),
      Row(GridClasses, HrefVersion, <<"70b">>, << <<"40GB">>, <<"8K">>, <<"Text">>, <<"x">> >>),
      Row(GridClasses, HrefVersion, ProtoKey, << <<"1GB">>, <<"2K">>, <<"Text">> >>),
      Row({"hidden", "group"}, HrefVersion, <<"8b">>, << <<"5.2GB">>, <<"128K">>, <<"Text">> >>),
      Row(GridClasses, NoElem, NoElem, << <<"5.2GB">>, <<"128K">> >>) }

EmptyPage == [anchors |-> <<>>, rows |-> <<>>]

DetailPages ==
    { [anchors |-> a, rows |-> r] :
        a \in SeqsUpTo(Anchors, MaxAnchors), r \in SeqsUpTo(Rows, MaxRows) }

Ok(page) == [kind |-> "ok", page |-> page]
Failed(kind) == [kind |-> kind, page |-> EmptyPage]

\* fetch() rejects, response.ok is false, or a page arrives
DetailResponses ==
    {Failed("NetworkError"), Failed("HttpError")} \cup {Ok(p) : p \in DetailPages}

----------------------------------------------------------------------------
(* Specification of fetchModelDetails alone *)

InitDetails ==
    /\ detailResp \in DetailResponses
    /\ detailPc = "call"
    /\ detailOut = <<>>
    /\ LimitIdle
    /\ ProxyIdle
    /\ ListIdle
    /\ SysIdle
    /\ UiIdle

DetailReturn ==
    /\ detailPc = "call"
    /\ detailOut' = FetchModelDetails(detailResp)
    /\ detailPc' = "returned"
    /\ UNCHANGED <<detailResp, limitVars, proxyVars, listVars, uiVars, sysVars>>

NextDetails == DetailReturn

SpecDetails == InitDetails /\ [][NextDetails]_vars

\* the entries pushed to versions before the merge
Entries == ExtractVersions(detailResp.page)

EntriesNamed(name) == {i \in 1..Len(Entries) : Entries[i].name = name}

\* the name was pushed by the mobile layout and again by the desktop grid
InBothLayouts(name) ==
    LET m == Len(ExtractMobile(detailResp.page))
    IN  /\ \E i \in EntriesNamed(name) : i <= m
        /\ \E i \in EntriesNamed(name) : i > m

StringFields == {"size", "context", "input", "updated"}

\* C1: for every version name seen in more than one entry, each string field
\* (size, context, input, updated) of the merged record is non-empty whenever
\* at least one of the source entries of that name has it non-empty.
MergePrefersNonEmpty ==
    (detailPc = "returned" /\ detailResp.kind = "ok") =>
        \A i \in 1..Len(detailOut) :
            InBothLayouts(detailOut[i].name) =>
                \A f \in StringFields :
                    (\E k \in EntriesNamed(detailOut[i].name) : Entries[k][f] /= <<>>)
                        => detailOut[i][f] /= <<>>

\* C2: the returned list holds at most one record per distinct version name
\* and a record for every version name that passed extraction in either layout.
DedupComplete ==
    (detailPc = "returned" /\ detailResp.kind = "ok") =>
        /\ \A i, j \in 1..Len(detailOut) :
              detailOut[i].name = detailOut[j].name => i = j
        /\ \A k \in 1..Len(Entries) :
              \E i \in 1..Len(detailOut) : detailOut[i].name = Entries[k].name

----------------------------------------------------------------------------
(* dataCache *)

\* addLog keeps the last 20 logs
MaxLogs == 20

\* Array.prototype.slice(-n)
LastN(s, n) == IF Len(s) <= n THEN s ELSE SubSeq(s, Len(s) - n + 1, Len(s))

\* A ScrapingLog without its timestamp; the variable parts of the message
\* (names, counts) are left out
Log(message, type) == [message |-> message, type |-> type]

NoProgress == NoCache.progress

\* addLog that keeps the first MaxLogs entries: slice(0, 20)
AddLogKeepFirst(c, log) ==
    IF c.present THEN [c EXCEPT !.logs = SubSeq(Append(c.logs, log), 1,
                                                IF Len(c.logs) < MaxLogs THEN Len(c.logs) + 1
                                                ELSE MaxLogs)]
    ELSE c

\* dataCache.addLog on the cache value c
AddLog(c, log) ==
    IF c.present THEN [c EXCEPT !.logs = LastN(Append(c.logs, log), MaxLogs)] ELSE c

\* dataCache.updateProgress: current is the fraction num/den
UpdateProgress(c, num, den, task) ==
    IF c.present
    THEN [c EXCEPT !.progress = [set |-> TRUE, num |-> num, den |-> den, task |-> task]]
    ELSE c

\* dataCache.setPending; stamp is the Date taken when the cache is created
SetPending(c, stamp) ==
    IF c.present THEN [c EXCEPT !.status = "pending", !.logs = <<>>]
    ELSE [present |-> TRUE, models |-> <<>>, src |-> <<"none", 0>>, limit |-> Undefined,
          status |-> "pending", logs |-> <<>>, progress |-> NoProgress,
          lastUpdated |-> stamp]

\* dataCache.set(data): { ...data, lastUpdated: new Date(), status, logs }
CacheSet(data, stamp) ==
    [present |-> TRUE, models |-> data.models, src |-> data.src, limit |-> data.limit,
     status |-> data.status, logs |-> data.logs, progress |-> data.progress,
     lastUpdated |-> stamp]

\* The cache together with the clock and the two history variables:
\* c is cachedModels, t the Date stamps taken, w the result sets written by
\* successful writes, h the log entries added since logs was last emptied.
Store == [c |-> cache, t |-> now, w |-> written, h |-> logged]

KAddLog(k, log) ==
    [k EXCEPT !.c = AddLog(k.c, log),
              !.h = IF k.c.present THEN Append(k.h, log) ELSE k.h]

RECURSIVE KAddLogs(_, _)
KAddLogs(k, logs) ==
    IF logs = <<>> THEN k ELSE KAddLogs(KAddLog(k, Head(logs)), Tail(logs))

KProgress(k, num, den, task) == [k EXCEPT !.c = UpdateProgress(k.c, num, den, task)]

KSetPending(k) ==
    [k EXCEPT !.c = SetPending(k.c, k.t + 1),
              !.t = IF k.c.present THEN k.t ELSE k.t + 1,
              !.h = <<>>]

\* dataCache.set; fresh tells that data is a new result set (a successful write)
KSet(k, data, fresh) ==
    [k EXCEPT !.c = CacheSet(data, k.t + 1),
              !.t = k.t + 1,
              !.w = IF fresh THEN Append(k.w, [src |-> data.src, models |-> data.models,
                                               status |-> data.status])
                    ELSE k.w,
              !.h = IF data.logs = k.c.logs THEN k.h ELSE data.logs]

Commit(k) ==
    /\ cache' = k.c
    /\ now' = k.t
    /\ written' = k.w
    /\ logged' = k.h

----------------------------------------------------------------------------
(* /api/scrape: handler and performScraping *)

\* pLimit(2)
ServerConcurrency == 2

\* limit < Infinity ? limit : undefined
StoredLimit(limit) == IF limit.kind = "int" THEN limit ELSE Undefined

Request(kind, i, url) == [kind |-> kind, i |-> i, url |-> url]

Running(task) == {i \in 1..Len(task) : task[i] = "running"}
Queued(task) == {i \in 1..Len(task) : task[i] = "queued"}

\* p-limit that starts a task while no more than concurrency run
RECURSIVE DispatchOneMore(_, _)
DispatchOneMore(task, concurrency) ==
    IF Queued(task) = {} \/ Cardinality(Running(task)) > concurrency THEN task
    ELSE LET i == CHOOSE q \in Queued(task) : \A o \in Queued(task) : q <= o
         IN DispatchOneMore([task EXCEPT ![i] = "running"], concurrency)

\* p-limit: start queued tasks, in order, while fewer than concurrency run
RECURSIVE Dispatch(_, _)
Dispatch(task, concurrency) ==
    IF Queued(task) = {} \/ Cardinality(Running(task)) >= concurrency THEN task
    ELSE LET i == CHOOSE q \in Queued(task) : \A o \in Queued(task) : q <= o
         IN Dispatch([task EXCEPT ![i] = "running"], concurrency)

\* the path fetchModelDetails is called with: model.url.replace(origin, '')
DetailPath(model) == RemoveFirst(model.url, Origin)

\* the detail requests issued when task becomes task2
NewRequests(models, task, task2) ==
    LET started == {i \in 1..Len(task) : task[i] = "queued" /\ task2[i] = "running"}
        F[i \in 0..Len(task)] ==
            IF i = 0 THEN <<>>
            ELSE F[i - 1] \o (IF i \in started
                              THEN <<Request("detail", i, Origin \o DetailPath(models[i]))>>
                              ELSE <<>>)
    IN F[Len(task)]

\* the log entries of the each-loop: the first three items and every fifth
ProcessingLogs(n) ==
    LET F[i \in 0..n] ==
            IF i = 0 THEN <<>>
            ELSE F[i - 1] \o (IF i % 5 = 0 \/ i <= 3
                              THEN <<Log("Processing model", "info")>> ELSE <<>>)
    IN F[n]

\* a catch block that empties the cached models
FailureDataCleared(currentData) == [currentData EXCEPT !.status = "ready", !.models = <<>>]

\* { ...currentData, status: 'ready' }
FailureData(currentData) == [currentData EXCEPT !.status = "ready"]

\* a catch block that logs the failure and leaves the status as it is
FailPathLogOnly(k) == KAddLog(k, Log("Scraping failed", "error"))

\* the outer catch of performScraping
FailPath(k) ==
    LET k1 == KAddLog(k, Log("Scraping failed", "error"))
    IN  IF k1.c.present THEN KSet(k1, FailureData(k1.c), FALSE) ELSE k1

\* a run that stores only the models whose detail fetch gave versions
WithDetailsDropFailed(models, results) ==
    LET kept == {i \in 1..Len(results) : results[i] /= <<>>}
        F[i \in 0..Len(results)] ==
            IF i = 0 THEN <<>>
            ELSE F[i - 1] \o (IF i \in kept
                              THEN <<[models[i] EXCEPT !.versions = results[i]]>>
                              ELSE <<>>)
    IN  F[Len(results)]

\* the models the run stores: each model with the versions of its task
WithDetails(models, results) ==
    [i \in 1..Len(results) |-> [models[i] EXCEPT !.versions = results[i]]]

\* the run stores its result: the end of the try block of performScraping
Finalize(k, r, run) ==
    LET k1 == KAddLog(k, Log("Scraping completed", "success"))
        k2 == KProgress(k1, 100, 1, "Complete")
    IN  KSet(k2, [models |-> WithDetails(run.models, run.results),
                  src |-> <<"run", r>>,
                  limit |-> StoredLimit(run.limit),
                  status |-> "ready",
                  logs |-> k2.c.logs,
                  progress |-> NoProgress], TRUE)

\* queries of /api/scrape explored
ScrapeQueries == {Absent, Str(<<"1">>)}

\* The workloads. "single": one scrape request, a listing page of up to
\* MaxServerItems items, the timers (progress reports, watchdog) and requests
\* to /api/cache-models. "overlap": up to MaxRuns scrape requests whose runs
\* overlap, listing pages of up to MaxOverlapItems items, requests to
\* /api/cache-models, no timer. "client": the browser scrape.
ServerModes == {"single", "overlap"}
RunsAllowed == IF mode = "single" THEN 1 ELSE IF mode = "overlap" THEN MaxRuns ELSE 0
ItemsAllowed == IF mode = "single" THEN MaxServerItems ELSE MaxOverlapItems

\* a handler that awaits the scrape before it responds
ScrapeRequestAwaiting(q) ==
    /\ Len(runs) < RunsAllowed
    /\ LET limit == EffectiveLimit(q)
           k1 == KSetPending(Store)
           k2 == KAddLog(k1, Log("Background scraping started", "info"))
           k3 == KAddLog(k2, Log("Starting scrape", "info"))
           k4 == KProgress(k3, 0, 1, "Fetching model list")
           k5 == KAddLogs(k4, << Log("Fetching main page", "info"),
                                 Log("Starting network request", "info"),
                                 Log("Starting HTTP request", "info"),
                                 Log("Testing connectivity", "info") >>)
       IN  /\ Commit(k5)
           /\ runs' = Append(runs,
                 [pc |-> "head", limit |-> limit, http |-> 0, ticks |-> 0,
                  items |-> <<>>, models |-> <<>>, task |-> <<>>, results |-> <<>>,
                  completedDetails |-> 0, failedDetails |-> {}, watchdog |-> "armed",
                  events |-> <<"setPending", "performScraping", "request">>,
                  requests |-> <<Request("HEAD", 0, Origin \o <<"/">>)>>])
    /\ UNCHANGED <<mode, posts, client>>
    /\ UNCHANGED <<detailVars, limitVars, proxyVars, listVars, uiVars>>

\* The handler and the synchronous start of performScraping, up to the
\* connectivity test (HEAD https://ollama.com/). The handler has no await:
\* it runs to its end in one step, and events lists what it does in the
\* order of its statements.
ScrapeRequest(q) ==
    /\ Len(runs) < RunsAllowed
    /\ LET limit == EffectiveLimit(q)
           k1 == KSetPending(Store)
           k2 == KAddLog(k1, Log("Background scraping started", "info"))
           k3 == KAddLog(k2, Log("Starting scrape", "info"))
           k4 == KProgress(k3, 0, 1, "Fetching model list")
           k5 == KAddLogs(k4, << Log("Fetching main page", "info"),
                                 Log("Starting network request", "info"),
                                 Log("Starting HTTP request", "info"),
                                 Log("Testing connectivity", "info") >>)
       IN  /\ Commit(k5)
           /\ runs' = Append(runs,
                 [pc |-> "head", limit |-> limit, http |-> 200, ticks |-> 0,
                  items |-> <<>>, models |-> <<>>, task |-> <<>>, results |-> <<>>,
                  completedDetails |-> 0, failedDetails |-> {}, watchdog |-> "armed",
                  events |-> <<"setPending", "respond", "performScraping", "request">>,
                  requests |-> <<Request("HEAD", 0, Origin \o <<"/">>)>>])
    /\ UNCHANGED <<mode, posts, client>>
    /\ UNCHANGED <<detailVars, limitVars, proxyVars, listVars, uiVars>>

\* trackProgress: every 5 seconds while the main page is awaited
Tick(r) ==
    /\ mode = "single"
    /\ runs[r].pc \in {"head", "search"}
    /\ runs[r].ticks < MaxTicks
    /\ Commit(KAddLog(Store, Log("Still fetching main page", "info")))
    /\ runs' = [runs EXCEPT ![r].ticks = @ + 1]
    /\ UNCHANGED <<mode, posts, client>>
    /\ UNCHANGED <<detailVars, limitVars, proxyVars, listVars, uiVars>>

\* The connectivity test settles: fetch resolves (any status) or rejects
HeadSettles(r, ok) ==
    /\ runs[r].pc = "head"
    /\ IF ok
       THEN /\ Commit(KAddLogs(Store, << Log("Basic connectivity OK", "info"),
                                         Log("Requesting search page", "info") >>))
            /\ runs' = [runs EXCEPT
                  ![r].pc = "search",
                  ![r].requests = Append(@, Request("search", 0,
                                                    Origin \o <<"/", "search">>))]
       ELSE /\ Commit(FailPath(KAddLogs(Store,
                    << Log("Basic connectivity failed", "error"),
                       Log("Failed to fetch ollama.com", "error") >>)))
            /\ runs' = [runs EXCEPT ![r].pc = "failed"]
    /\ UNCHANGED <<mode, posts, client>>
    /\ UNCHANGED <<detailVars, limitVars, proxyVars, listVars, uiVars>>

\* Listing pages and detail responses the scrapers meet
ModelNames ==
    <<"llama3", "qwen", "phi", "gemma", "mistral", "llava", "yi", "falcon",
      "orca", "vicuna", "solar", "zephyr">>

\* the second item of the page has no link
SysItemAt(i) ==
    IF i = 2 THEN ItemWithout(ModelNames[i], {"href"}) ELSE Item(ModelNames[i])

SysItems(n) == [i \in 1..n |-> SysItemAt(i)]

OkListing(items) == [kind |-> "ok", items |-> items]
FailedListing(kind) == [kind |-> kind, items |-> <<>>]

\* fetch or text() rejects, response.ok is false, the page cannot be parsed,
\* or a listing page arrives
ListingResponses(maxItems) ==
    {FailedListing("NetworkError"), FailedListing("HttpError"), FailedListing("ParseError")}
        \cup {OkListing(SysItems(n)) : n \in 0..maxItems}

SysDetailPage ==
    [anchors |-> << Anchor(HrefVersion, TRUE, <<"8b">>, InfoFull) >>,
     rows |-> << Row(GridClasses, HrefVersion, <<"8b">>,
                     << <<"5.2GB">>, <<"128K">>, <<"Text">> >>) >>]

SysDetailResponses ==
    {Failed("NetworkError"), Failed("HttpError"), Failed("ParseError"), Ok(SysDetailPage)}

\* The search page settles. A failure of the fetch is logged and thrown on
\* by the inner catch; a failure of the parsing goes to the outer catch at
\* once. On success the page is parsed, the models are
\* built and the detail tasks are handed to p-limit, which starts the first.
SearchSettles(r, resp) ==
    /\ runs[r].pc = "search"
    /\ IF resp.kind \in {"NetworkError", "HttpError"}
       THEN /\ Commit(FailPath(KAddLog(Store, Log("Failed to fetch ollama.com", "error"))))
            /\ runs' = [runs EXCEPT ![r].pc = "failed"]
       ELSE IF resp.kind = "ParseError"
       THEN /\ Commit(FailPath(KProgress(
                    KAddLogs(Store, << Log("Got response", "success"),
                                       Log("Retrieved model list page", "success") >>),
                    20, 1, "Parsing model list")))
            /\ runs' = [runs EXCEPT ![r].pc = "failed"]
       ELSE LET run == runs[r]
                models == ServerListing(resp.items, run.limit)
                k1 == KAddLogs(Store, << Log("Got response", "success"),
                                         Log("Retrieved model list page", "success") >>)
                k2 == KProgress(k1, 20, 1, "Parsing model list")
                k3 == KAddLog(k2, Log("Found models on page", "info"))
                k4 == KProgress(k3, 30, 1, "Processing models")
                k5 == KAddLogs(k4, ProcessingLogs(Len(models)))
                k6 == KAddLog(k5, Log("Fetching detailed info", "info"))
                k7 == KProgress(k6, 50, 1, "Fetching model details")
                queued == [i \in 1..Len(Slice(models, 0, run.limit)) |-> "queued"]
                task == Dispatch(queued, ServerConcurrency)
                run2 == [run EXCEPT
                           !.items = resp.items,
                           !.models = models,
                           !.task = task,
                           !.results = [i \in 1..Len(task) |-> <<>>],
                           !.requests = @ \o NewRequests(models, queued, task)]
            IN  IF task = <<>>
                THEN /\ Commit(Finalize(k7, r, run2))
                     /\ runs' = [runs EXCEPT ![r] = [run2 EXCEPT !.pc = "stored"]]
                ELSE /\ Commit(k7)
                     /\ runs' = [runs EXCEPT ![r] = [run2 EXCEPT !.pc = "details"]]
    /\ UNCHANGED <<mode, posts, client>>
    /\ UNCHANGED <<detailVars, limitVars, proxyVars, listVars, uiVars>>

\* a task whose fetch did not succeed is queued again
TaskAfterRetry(resp) == IF resp.kind /= "ok" THEN "queued" ELSE "done"

\* the state of a detail task once its fetch has settled with resp
TaskAfter(resp) == "done"

\* The detail fetch of task i settles (fetch and text() together): the task
\* returns its model with the versions, p-limit starts the next queued task,
\* and when every task has returned the run stores its result.
DetailSettles(r, i, resp) ==
    /\ runs[r].pc = "details"
    /\ i \in Running(runs[r].task)
    /\ LET run == runs[r]
           done == run.completedDetails + 1
           settled == [run.task EXCEPT ![i] = TaskAfter(resp)]
           task == Dispatch(settled, ServerConcurrency)
           k1 == IF done % 3 = 0 \/ done <= 2
                 THEN KProgress(KAddLog(Store, Log("Got details", "success")),
                                50 * Len(run.models) + 40 * done, Len(run.models),
                                "Processing model")
                 ELSE Store
           run2 == [run EXCEPT
                      !.task = task,
                      !.results[i] = FetchModelDetails(resp),
                      !.completedDetails = done,
                      !.failedDetails = IF resp.kind /= "ok" THEN @ \cup {i} ELSE @,
                      !.requests = @ \o NewRequests(run.models, settled, task)]
       IN  IF \A j \in 1..Len(task) : task[j] = "done"
           THEN /\ Commit(Finalize(k1, r, run2))
                /\ runs' = [runs EXCEPT ![r] = [run2 EXCEPT !.pc = "stored"]]
           ELSE /\ Commit(k1)
                /\ runs' = [runs EXCEPT ![r] = run2]
    /\ UNCHANGED <<mode, posts, client>>
    /\ UNCHANGED <<detailVars, limitVars, proxyVars, listVars, uiVars>>

\* a watchdog that ends the run as failed
WatchdogCancels(r) ==
    /\ mode = "single"
    /\ runs[r].watchdog = "armed"
    /\ runs[r].pc \notin {"stored", "failed"}
    /\ Commit(FailPath(KAddLog(Store, Log("Watchdog timeout reached", "info"))))
    /\ runs' = [runs EXCEPT ![r].watchdog = "fired", ![r].pc = "failed"]
    /\ UNCHANGED <<mode, posts, client>>
    /\ UNCHANGED <<detailVars, limitVars, proxyVars, listVars, uiVars>>

\* The 15-second timer of withTimeout fires before performScraping has
\* settled: the race rejects and the catch handler logs. (Once
\* performScraping has settled the race is decided and the timer does nothing.)
WatchdogFires(r) ==
    /\ mode = "single"
    /\ runs[r].watchdog = "armed"
    /\ runs[r].pc \notin {"stored", "failed"}
    /\ Commit(KAddLog(Store, Log("Watchdog timeout reached", "info")))
    /\ runs' = [runs EXCEPT ![r].watchdog = "fired"]
    /\ UNCHANGED <<mode, posts, client>>
    /\ UNCHANGED <<detailVars, limitVars, proxyVars, listVars, uiVars>>

\* 5 seconds after the watchdog: a log entry that tells how the scrape stands
WatchdogCheck(r) ==
    /\ runs[r].watchdog = "fired"
    /\ Commit(IF ~cache.present THEN Store
              ELSE IF cache.status = "ready"
              THEN KAddLog(Store, Log("Scraping completed after watchdog", "success"))
              ELSE KAddLog(Store, Log("Scraping still in progress", "warning")))
    /\ runs' = [runs EXCEPT ![r].watchdog = "checked"]
    /\ UNCHANGED <<mode, posts, client>>
    /\ UNCHANGED <<detailVars, limitVars, proxyVars, listVars, uiVars>>

----------------------------------------------------------------------------
(* /api/cache-models and /api/models *)

\* limit && limit < Infinity ? limit : undefined
PostedLimit(limit) == IF limit.kind = "int" /\ limit.v /= 0 THEN limit ELSE Undefined

\* req.body: isNull tells a body that is null (the JSON text null), of which
\* no property can be read
Body(isArray, models, limit) ==
    [isNull |-> FALSE, isArray |-> isArray, models |-> models, limit |-> limit]

\* the status /api/cache-models answers with
CacheModelsStatus(method, body) ==
    IF method /= "POST" THEN 405
    ELSE IF body.isNull THEN 500
    ELSE IF ~body.isArray THEN 400 ELSE 200

\* a handler that stores whatever it is sent
CacheModelsUnchecked(k, method, body, id) ==
    KSet(k, [models |-> body.models,
             src |-> <<"post", id>>,
             limit |-> PostedLimit(body.limit),
             status |-> "ready",
             logs |-> <<>>,
             progress |-> NoProgress], TRUE)

\* the handler of /api/cache-models; id numbers the request
CacheModels(k, method, body, id) ==
    IF CacheModelsStatus(method, body) /= 200 THEN k
    ELSE KSet(k, [models |-> body.models,
                  src |-> <<"post", id>>,
                  limit |-> PostedLimit(body.limit),
                  status |-> "ready",
                  logs |-> <<>>,
                  progress |-> NoProgress], TRUE)

PostedModel ==
    [ServerItem(Item("posted")) EXCEPT !.versions = FetchModelDetails(Ok(SysDetailPage))]

PostBodies ==
    {Body(FALSE, <<>>, Undefined), Body(TRUE, <<PostedModel>>, Num(5)),
     [Body(FALSE, <<>>, Undefined) EXCEPT !.isNull = TRUE]}

PostMethods == {"POST", "GET"}

\* A request to /api/cache-models that is not the browser scrape's own
CacheModelsRequest(method, body) ==
    /\ mode \in ServerModes
    /\ Len(posts) < MaxPosts
    /\ Commit(CacheModels(Store, method, body, Len(posts) + 1))
    /\ posts' = Append(posts, [method |-> method, body |-> body,
                               code |-> CacheModelsStatus(method, body)])
    /\ UNCHANGED <<mode, runs, client>>
    /\ UNCHANGED <<detailVars, limitVars, proxyVars, listVars, uiVars>>

\* the answer of /api/models
ModelsAnswer(c, method) ==
    IF method /= "GET"
    THEN [code |-> 405, models |-> <<>>, limit |-> Undefined, status |-> "", lastUpdated |-> 0]
    ELSE IF ~c.present
    THEN [code |-> 200, models |-> <<>>, limit |-> Undefined, status |-> "", lastUpdated |-> 0]
    ELSE [code |-> 200, models |-> c.models, limit |-> c.limit, status |-> c.status,
          lastUpdated |-> c.lastUpdated]

\* The handler of /api/models only reads the cache: it answers and leaves
\* the state of the server as it is
ModelsRequest(method) ==
    /\ mode \in ServerModes \cup {"client"}
    /\ ModelsAnswer(cache, method).code \in {200, 405}
    /\ UNCHANGED sysVars
    /\ UNCHANGED <<detailVars, limitVars, proxyVars, listVars, uiVars>>

----------------------------------------------------------------------------
(* scrapeOllamaModels in the browser, and refreshData that posts its result *)

\* const concurrencyLimit = 8
ClientConcurrency == 8

ClientLimits == {Infinity, Num(1)}

\* models.slice(i, i + concurrencyLimit): the tasks of the batch that starts at i
Batch(n, i) == {j \in 1..n : i < j /\ j <= i + ClientConcurrency}

\* batch.map(async ...): every task of the batch starts its fetch
StartBatch(c, i) ==
    [c EXCEPT
       !.pc = "batch",
       !.start = i,
       !.task = [j \in 1..Len(c.models) |->
                   IF j \in Batch(Len(c.models), i) THEN "running" ELSE c.task[j]],
       !.requests = @ \o [j \in 1..Cardinality(Batch(Len(c.models), i)) |->
                             Request("detail", i + j, Origin \o DetailPath(c.models[i + j]))]]

ClientStart(limit) ==
    /\ mode = "client"
    /\ client.pc = "idle"
    /\ client' = [client EXCEPT
                    !.pc = "listing",
                    !.limit = limit,
                    !.requests = <<Request("search", 0, Origin \o <<"/", "search">>)>>]
    /\ UNCHANGED <<mode, cache, now, runs, posts, written, logged>>
    /\ UNCHANGED <<detailVars, limitVars, proxyVars, listVars, uiVars>>

\* The listing request (through the proxy) settles
ClientListingSettles(resp) ==
    /\ client.pc = "listing"
    /\ IF resp.kind /= "ok"
       THEN client' = [client EXCEPT !.pc = "failed"]
       ELSE LET models == ClientListing(resp.items, client.limit)
                c1 == [client EXCEPT
                         !.items = resp.items,
                         !.models = models,
                         !.task = [j \in 1..Len(models) |-> "queued"],
                         !.results = [j \in 1..Len(models) |-> <<>>]]
            IN  client' = IF models = <<>> THEN [c1 EXCEPT !.pc = "scraped"]
                          ELSE StartBatch(c1, 0)
    /\ UNCHANGED <<mode, cache, now, runs, posts, written, logged>>
    /\ UNCHANGED <<detailVars, limitVars, proxyVars, listVars, uiVars>>

\* what the browser can get from /api/proxy for url: a refused url is never ok
ThroughProxy(url, resp) == ProxyGate("GET", Str(url)) = 0 \/ resp.kind /= "ok"

\* A detail request of the running batch settles; when the whole batch has
\* settled its results are written to models and the next batch is delayed.
ClientDetailSettles(i, resp) ==
    /\ client.pc = "batch"
    /\ i \in Running(client.task)
    /\ ThroughProxy(Origin \o DetailPath(client.models[i]), resp)
    /\ LET c1 == [client EXCEPT
                    !.task[i] = "done",
                    !.results[i] = FetchModelDetails(resp),
                    !.completedDetails = @ + 1,
                    !.failedDetails = IF resp.kind /= "ok" THEN @ \cup {i} ELSE @]
           batch == Batch(Len(c1.models), c1.start)
           c2 == [c1 EXCEPT
                    !.models = [j \in 1..Len(c1.models) |->
                                  IF j \in batch
                                  THEN [c1.models[j] EXCEPT !.versions = c1.results[j]]
                                  ELSE c1.models[j]]]
       IN  client' =
             IF Running(c1.task) /= {} THEN c1
             ELSE IF c1.start + ClientConcurrency < Len(c1.models)
             THEN [c2 EXCEPT !.pc = "delay"]
             ELSE [c2 EXCEPT !.pc = "scraped"]
    /\ UNCHANGED <<mode, cache, now, runs, posts, written, logged>>
    /\ UNCHANGED <<detailVars, limitVars, proxyVars, listVars, uiVars>>

\* await delay(200) returns: the next batch starts
ClientDelayDone ==
    /\ client.pc = "delay"
    /\ client' = StartBatch(client, client.start + ClientConcurrency)
    /\ UNCHANGED <<mode, cache, now, runs, posts, written, logged>>
    /\ UNCHANGED <<detailVars, limitVars, proxyVars, listVars, uiVars>>

\* JSON.stringify turns Infinity into null
JsonLimit(limit) == IF limit.kind = "int" THEN limit ELSE Undefined

\* refreshData posts the scraped models to /api/cache-models
ClientPost ==
    /\ client.pc = "scraped"
    /\ LET body == Body(TRUE, client.models, JsonLimit(client.limit))
       IN  /\ Commit(CacheModels(Store, "POST", body, Len(posts) + 1))
           /\ posts' = Append(posts, [method |-> "POST", body |-> body,
                                      code |-> CacheModelsStatus("POST", body)])
    /\ client' = [client EXCEPT !.pc = "cached"]
    /\ UNCHANGED <<mode, runs>>
    /\ UNCHANGED <<detailVars, limitVars, proxyVars, listVars, uiVars>>

----------------------------------------------------------------------------
(* The server process with its scrape runs, or the browser scrape *)

Init ==
    /\ mode \in ServerModes \cup {"client"}
    /\ cache = NoCache
    /\ now = 0
    /\ runs = <<>>
    /\ posts = <<>>
    /\ client = [ClientOff EXCEPT !.pc = IF mode = "client" THEN "idle" ELSE "off"]
    /\ written = <<>>
    /\ logged = <<>>
    /\ DetailIdle
    /\ LimitIdle
    /\ ProxyIdle
    /\ ListIdle
    /\ UiIdle

Next ==
    \/ \E q \in ScrapeQueries : ScrapeRequest(q)
    \/ \E r \in 1..Len(runs) : Tick(r)
    \/ \E r \in 1..Len(runs), ok \in BOOLEAN : HeadSettles(r, ok)
    \/ \E r \in 1..Len(runs), resp \in ListingResponses(ItemsAllowed) :
          SearchSettles(r, resp)
    \/ \E r \in 1..Len(runs), i \in 1..ItemsAllowed, resp \in SysDetailResponses :
          DetailSettles(r, i, resp)
    \/ \E r \in 1..Len(runs) : WatchdogFires(r)
    \/ \E r \in 1..Len(runs) : WatchdogCheck(r)
    \/ \E m \in PostMethods, b \in PostBodies : CacheModelsRequest(m, b)
    \/ \E m \in Methods : ModelsRequest(m)
    \/ \E l \in ClientLimits : ClientStart(l)
    \/ \E resp \in ListingResponses(MaxClientItems) : ClientListingSettles(resp)
    \/ \E i \in 1..MaxClientItems, resp \in SysDetailResponses :
          ClientDetailSettles(i, resp)
    \/ ClientDelayDone
    \/ ClientPost

Spec == Init /\ [][Next]_vars

\* the request run r awaits: the connectivity test, the search page, or the
\* detail page of task i
Awaited(r, what) ==
    /\ r <= Len(runs)
    /\ CASE what = 0 -> runs[r].pc = "head"
         [] what = 1 -> runs[r].pc = "search"
         [] OTHER -> /\ runs[r].pc = "details"
                     /\ what - 1 <= Len(runs[r].task)
                     /\ runs[r].task[what - 1] = "running"

\* Every network request eventually completes or errors: no request of a run
\* is awaited for ever. For the action A that settles a request this is weak
\* fairness: A is enabled exactly while the request is awaited and a request
\* settles once, so "infinitely often A is not enabled or an A step is
\* taken" is "infinitely often the request is not awaited". Which outcome
\* arrives is left open, and nothing is assumed of timers or of further
\* requests to the server.
SpecFair ==
    /\ Spec
    /\ \A r \in 1..MaxRuns : \A what \in 0..(MaxServerItems + 1) :
          []<>(~Awaited(r, what))

----------------------------------------------------------------------------
(* Properties of the scrape runs and of the cache *)

DetailRequests(requests) == {j \in 1..Len(requests) : requests[j].kind = "detail"}

\* detail requests issued and not yet settled
InFlight(x) == Cardinality(DetailRequests(x.requests)) - x.completedDetails

\* C3: within one scrape run the number of detail-page fetches in flight
\* never exceeds the run's concurrency limit: 2 in performScraping, 8 in
\* scrapeOllamaModels.
BoundedParallelism ==
    /\ \A r \in 1..Len(runs) : InFlight(runs[r]) <= ServerConcurrency
    /\ InFlight(client) <= ClientConcurrency

\* C3 witness: a server run with three models has two fetches in flight and
\* one task waiting
BoundedParallelismWitness ==
    \E r \in 1..Len(runs) :
        /\ Len(runs[r].task) = 3
        /\ InFlight(runs[r]) = ServerConcurrency
        /\ Queued(runs[r].task) /= {}

\* C4: once a result set has been written (a scrape completion or an
\* accepted POST), the cached models are those of the most recent such
\* write; a result set that has been replaced is never in the cache again.
LatestResultSet ==
    written /= <<>> =>
        /\ cache.present
        /\ cache.models = written[Len(written)].models
        /\ cache.src = written[Len(written)].src
        /\ \A i \in 1..(Len(written) - 1) : written[i].src /= cache.src

\* C4 witness: of two overlapping runs the second has written, a POST has
\* replaced its result set, and the first run has failed since
LatestResultSetWitness ==
    /\ Len(runs) = 2
    /\ Len(written) = 2
    /\ written[1].src = <<"run", 2>>
    /\ written[2].src = <<"post", 1>>
    /\ runs[1].pc = "failed"
    /\ cache.models /= written[1].models

\* C5: the cached logs never hold more than 20 entries, and they are the
\* entries added since the logs were last emptied, in insertion order,
\* truncated to the 20 most recent.
RollingLogs ==
    /\ Len(cache.logs) <= 20
    /\ cache.logs = LastN(logged, 20)

\* C5 witness: more than 20 entries have been added, so the oldest are gone
RollingLogsWitness ==
    /\ cache.present
    /\ Len(logged) > 20
    /\ cache.logs[1] /= logged[1]

CountRequests(requests, kind, i) ==
    Cardinality({j \in 1..Len(requests) : requests[j].kind = kind /\ requests[j].i = i})

\* C7: within one scrape run the listing page is requested at most once and
\* each model's detail page at most once, also when a request fails or
\* returns a status that is not ok.
NoRetry ==
    /\ \A r \in 1..Len(runs) :
         /\ CountRequests(runs[r].requests, "search", 0) <= 1
         /\ \A i \in 1..Len(runs[r].requests) :
               CountRequests(runs[r].requests, "detail", i) <= 1
    /\ CountRequests(client.requests, "search", 0) <= 1
    /\ \A i \in 1..Len(client.requests) :
          CountRequests(client.requests, "detail", i) <= 1

\* C7 witness: a run has finished although the detail fetch of its first
\* model failed, and the fetch of its last model succeeded
NoRetryWitness ==
    \E r \in 1..Len(runs) :
        /\ runs[r].pc = "stored"
        /\ Len(runs[r].results) = 3
        /\ runs[r].results[1] = <<>>
        /\ runs[r].results[3] /= <<>>

\* the result set that run r wrote
WrittenBy(r) == {i \in 1..Len(written) : written[i].src = <<"run", r>>}

\* C10: a successful scrape run with effective limit L over a listing page
\* of N items stores exactly min(L, N) models, the first min(L, N) items of
\* the page in order, and requests a detail page for those models only; the
\* browser scrape returns, and posts, the models chosen in the same way.
LimitRespected ==
    /\ client.pc \in {"scraped", "cached"} =>
          LET n == Len(client.items)
              k == IF client.limit.kind = "int" /\ client.limit.v < n
                   THEN client.limit.v ELSE n
          IN  /\ Len(client.models) = k
              /\ \A i \in 1..k :
                    [client.models[i] EXCEPT !.versions = <<>>] = ClientItem(client.items[i])
              /\ {client.requests[j].i : j \in DetailRequests(client.requests)} = 1..k
              /\ client.pc = "cached" =>
                    /\ written /= <<>>
                    /\ written[Len(written)].models = client.models
    /\ \A r \in 1..Len(runs) :
        runs[r].pc = "stored" =>
            LET run == runs[r]
                n == Len(run.items)
                k == IF run.limit.kind = "int" /\ run.limit.v < n THEN run.limit.v ELSE n
            IN  /\ Cardinality(WrittenBy(r)) = 1
                /\ \A w \in WrittenBy(r) :
                      /\ Len(written[w].models) = k
                      /\ \A i \in 1..k :
                            [written[w].models[i] EXCEPT !.versions = <<>>]
                                = ServerItem(run.items[i])
                /\ {run.requests[j].i : j \in DetailRequests(run.requests)} = 1..k
                /\ \A j \in DetailRequests(run.requests) :
                      run.requests[j].url = written[CHOOSE w \in WrittenBy(r) : TRUE]
                                                .models[run.requests[j].i].url

\* C10 witness: a run with limit 1 over a page of three items has stored
LimitRespectedWitness ==
    \E r \in 1..Len(runs) :
        /\ runs[r].pc = "stored"
        /\ runs[r].limit = Num(1)
        /\ Len(runs[r].items) = 3

\* the versions a model is given when its detail fetch has settled
VersionsAfter(failed) == IF failed THEN <<>> ELSE FetchModelDetails(Ok(SysDetailPage))

\* C13: a model whose detail fetch fails (network error, non-OK status or
\* parse error) is kept in the result with an empty versions list and the
\* versions of the other models are those of their own detail pages; a
\* failed detail fetch never fails the run, which stores all its models with
\* status 'ready'. The same holds for the models the browser scrape returns.
DetailFailureIsolation ==
    /\ \A r \in 1..Len(runs) :
          LET run == runs[r]
              k == Len(run.task)
          IN  /\ run.failedDetails /= {} => run.pc \in {"details", "stored"}
              /\ \A i \in 1..k :
                    run.task[i] = "done" =>
                        run.results[i] = VersionsAfter(i \in run.failedDetails)
              /\ run.pc = "details" => \E i \in 1..k : run.task[i] /= "done"
              /\ run.pc = "stored" =>
                    /\ WrittenBy(r) /= {}
                    /\ \A w \in WrittenBy(r) :
                          /\ written[w].status = "ready"
                          /\ Len(written[w].models) = k
                          /\ \A i \in 1..k :
                                written[w].models[i] =
                                    [run.models[i] EXCEPT
                                        !.versions = VersionsAfter(i \in run.failedDetails)]
    /\ client.failedDetails /= {} => client.pc \in {"batch", "delay", "scraped", "cached"}
    /\ client.pc \in {"scraped", "cached"} =>
          /\ Len(client.models) = Len(client.task)
          /\ \A i \in 1..Len(client.models) :
                client.models[i].versions = VersionsAfter(i \in client.failedDetails)

\* C13 witness: a run over three models has stored; the detail fetch of the
\* second failed and the cache holds the three models, the second without
\* versions, the others with theirs, with status 'ready'
DetailFailureIsolationWitness ==
    \E r \in 1..Len(runs) :
        /\ runs[r].pc = "stored"
        /\ runs[r].failedDetails = {2}
        /\ cache.status = "ready"
        /\ Len(cache.models) = 3
        /\ cache.models[2].versions = <<>>
        /\ cache.models[1].versions /= <<>>
        /\ cache.models[3].versions /= <<>>

\* the place of event e in the handler's sequence of events, 0 if absent
EventAt(r, e) ==
    IF \E i \in 1..Len(runs[r].events) : runs[r].events[i] = e
    THEN CHOOSE i \in 1..Len(runs[r].events) : runs[r].events[i] = e
    ELSE 0

\* C14: on every request to the scrape handler the cache status is set to
\* 'pending' and the 200 response is sent before the background scrape
\* issues its first network request; when the handler returns the response
\* has been sent, the status is 'pending' and the scrape has only just sent
\* its first request, so the response never waits for the scrape to finish.
PendingBeforeWork ==
    /\ [](\A r \in 1..Len(runs) :
            /\ runs[r].http = 200
            /\ 0 < EventAt(r, "setPending")
            /\ EventAt(r, "setPending") < EventAt(r, "respond")
            /\ EventAt(r, "respond") < EventAt(r, "performScraping")
            /\ EventAt(r, "performScraping") < EventAt(r, "request"))
    /\ [][Len(runs') > Len(runs) =>
            /\ cache'.present
            /\ cache'.status = "pending"
            /\ runs'[Len(runs')].pc = "head"
            /\ Len(runs'[Len(runs')].requests) = 1]_vars

\* C14 witness: a second scrape request arrives while the cache is 'ready'
\* with the models of the first run; it is answered, the status is 'pending'
\* again and its run awaits its first request
PendingBeforeWorkWitness ==
    /\ Len(runs) = 2
    /\ runs[1].pc = "stored"
    /\ runs[2].pc = "head"
    /\ runs[2].http = 200
    /\ cache.status = "pending"
    /\ cache.models /= <<>>

\* C15: if every network request eventually completes or errors, every
\* scrape request (there are at most MaxRuns) is followed by a state in which
\* its run has ended, stored or failed at any step, and the cache status is
\* 'ready'.
PendingCleared ==
    \A r \in 1..MaxRuns :
        (Len(runs) >= r) ~> (/\ Len(runs) >= r
                             /\ runs[r].pc \in {"stored", "failed"}
                             /\ cache.status = "ready")

\* C15 witness: the search page of a run could not be fetched or parsed; the
\* run has failed and the status, 'pending' since the request, is 'ready'
PendingClearedWitness ==
    \E r \in 1..Len(runs) :
        /\ runs[r].pc = "failed"
        /\ Len(runs[r].requests) = 2
        /\ cache.status = "ready"
        /\ \A q \in 1..Len(runs) : runs[q].pc \in {"stored", "failed"}

\* C16: when a server scrape run fails, the cached models and limit are
\* left as they were; only the status returns to 'ready' and a failure log
\* entry is appended, so the date of the last update is left as it was too.
FailedScrapeKeepsData ==
    [][\A r \in 1..Len(runs) :
          (runs[r].pc /= "failed" /\ runs'[r].pc = "failed") =>
              /\ cache'.models = cache.models
              /\ cache'.limit = cache.limit
              /\ cache'.status = "ready"
              /\ cache'.logs /= <<>>
              /\ cache'.logs[Len(cache'.logs)] = Log("Scraping failed", "error")
              /\ cache'.lastUpdated = cache.lastUpdated]_vars

\* C17: the watchdog does not cancel or alter the run: a step of the
\* watchdog (its timer fires, or its later check) changes neither the cached
\* models nor the status nor anything of the run, and a run whose watchdog
\* has fired still writes all its models with status 'ready' when it
\* completes.
WatchdogDoesNotCancel ==
    /\ [][\A r \in 1..Len(runs) :
            runs'[r].watchdog /= runs[r].watchdog =>
                /\ cache'.models = cache.models
                /\ cache'.status = cache.status
                /\ cache'.limit = cache.limit
                /\ runs' = [runs EXCEPT ![r].watchdog = runs'[r].watchdog]]_vars
    /\ [](\A r \in 1..Len(runs) :
            (runs[r].watchdog /= "armed" /\ runs[r].pc = "stored") =>
                /\ WrittenBy(r) /= {}
                /\ \A w \in WrittenBy(r) :
                      /\ written[w].status = "ready"
                      /\ Len(written[w].models) = Len(runs[r].task))

\* C17 witness: the watchdog fired, and made its check, before the run had
\* settled; the run went on, fetched the details of its three models and
\* stored them
WatchdogDoesNotCancelWitness ==
    \E r \in 1..Len(runs) :
        /\ runs[r].watchdog = "checked"
        /\ runs[r].pc = "stored"
        /\ Len(runs[r].requests) = 5
        /\ cache.status = "ready"
        /\ Len(cache.models) = 3
        /\ cache.src = <<"run", r>>

\* C18: a request to /api/cache-models whose method is not POST gets 405,
\* and a POST whose body.models is not an array gets 400; in both cases, as
\* for every request that is not answered 200, the cache (models, status,
\* logs, limit, lastUpdated) is left unchanged.
RejectsWithoutEffect ==
    [][Len(posts') > Len(posts) =>
          LET p == posts'[Len(posts')]
          IN  /\ p.method /= "POST" => (p.code = 405 /\ cache' = cache)
              /\ (p.method = "POST" /\ ~p.body.isNull /\ ~p.body.isArray) =>
                    (p.code = 400 /\ cache' = cache)
              /\ p.code /= 200 => cache' = cache]_vars

\* C18 witness: a POST without an array of models was answered 400 while a
\* scrape was pending over cached models; the cache is as it was
RejectsWithoutEffectWitness ==
    /\ Len(posts) = 1
    /\ posts[1].method = "POST"
    /\ ~posts[1].body.isNull
    /\ posts[1].code = 400
    /\ cache.status = "pending"
    /\ cache.models /= <<>>
    /\ written /= <<>>
    /\ cache.models = written[Len(written)].models

----------------------------------------------------------------------------
(* The page: the table of models, its filters and its sort headers.       *)
(* Strings of the page are sequences of one-character tokens.             *)

MaxTableModels == 2
MaxClicks == 3

\* the characters in the order of their code units
CharOrder ==
    << " ", ".", "/",
       "0", "1", "2", "3", "4", "5", "6", "7", "8", "9",
       "A", "B", "C", "D", "E", "F", "G", "H", "I", "J", "K", "L", "M",
       "N", "O", "P", "Q", "R", "S", "T", "U", "V", "W", "X", "Y", "Z",
       "a", "b", "c", "d", "e", "f", "g", "h", "i", "j", "k", "l", "m",
       "n", "o", "p", "q", "r", "s", "t", "u", "v", "w", "x", "y", "z" >>

\* String.prototype.toLowerCase
ToLowerCase(t) ==
    LET code(c) == CHOOSE i \in 1..Len(CharOrder) : CharOrder[i] = c
    IN  [i \in 1..Len(t) |->
            IF code(t[i]) >= code("A") /\ code(t[i]) <= code("Z")
            THEN CharOrder[code(t[i]) + 26] ELSE t[i]]

\* a < b on strings: the order of the code units, a proper prefix first
RECURSIVE StringLess(_, _)
StringLess(a, b) ==
    IF b = <<>> THEN FALSE
    ELSE IF a = <<>> THEN TRUE
    ELSE IF Head(a) /= Head(b)
    THEN \E i, j \in 1..Len(CharOrder) :
            i < j /\ CharOrder[i] = Head(a) /\ CharOrder[j] = Head(b)
    ELSE StringLess(Tail(a), Tail(b))

\* replace(/[^...]/g, ''): the characters of t that are in keep
RECURSIVE KeepChars(_, _)
KeepChars(t, keep) ==
    IF t = <<>> THEN <<>>
    ELSE (IF Head(t) \in keep THEN <<Head(t)>> ELSE <<>>) \o KeepChars(Tail(t), keep)

\* parseSize: gigabytes. Numbers of the page are kept in thousandths (Num(v)
\* stands for v / 1000). parseFloat reads the longest prefix that is a
\* decimal literal (digits, then optionally a dot and digits) and gives NaN
\* without any digit; fraction digits beyond the third are dropped.
ParseSize(sizeStr) ==
    IF sizeStr = <<>> THEN Num(0)
    ELSE LET t == KeepChars(sizeStr, Digits \cup {"."})
             ip == DigitPrefix(t)
             rest == SubSeq(t, Len(ip) + 1, Len(t))
             fp == IF rest /= <<>> /\ Head(rest) = "." THEN DigitPrefix(Tail(rest)) ELSE <<>>
             fp3 == SubSeq(fp, 1, IF Len(fp) < 3 THEN Len(fp) ELSE 3)
             scale == CASE Len(fp3) = 0 -> 1000 [] Len(fp3) = 1 -> 100
                        [] Len(fp3) = 2 -> 10 [] OTHER -> 1
             num == DecimalValue(ip) * 1000 + DecimalValue(fp3) * scale
         IN  IF ip = <<>> /\ fp = <<>> THEN NaN
             ELSE IF Includes(ToLowerCase(sizeStr), <<"t", "b">>) THEN Num(num * 1000)
             ELSE IF Includes(ToLowerCase(sizeStr), <<"k", "b">>) THEN Num(num \div 1000)
             ELSE Num(num)

\* parseContext: thousands of tokens, in thousandths
ParseContext(contextStr) ==
    IF contextStr = <<>> THEN Num(0)
    ELSE LET num == ParseInt(KeepChars(contextStr, Digits))
         IN  IF num.kind /= "int" THEN num
             ELSE IF Includes(ToLowerCase(contextStr), <<"k">>) THEN Num(num.v * 1000)
             ELSE IF Includes(ToLowerCase(contextStr), <<"m">>) THEN Num(num.v * 1000 * 1000)
             ELSE Num(num.v)

\* aValue / bValue of the comparator for the sort field; sizes and contexts
\* are the parsed values that pass .filter(s => s > 0), which drops NaN
SortValue(model, field) ==
    LET sizes == {ParseSize(model.versions[i].size) : i \in 1..Len(model.versions)}
        contexts == {ParseContext(model.versions[i].context) : i \in 1..Len(model.versions)}
        aSizes == {n.v : n \in {k \in sizes : k.kind = "int" /\ k.v > 0}}
        aContexts == {n.v : n \in {k \in contexts : k.kind = "int" /\ k.v > 0}}
    IN  CASE field = "name" -> ToLowerCase(model.name)
          [] field = "capabilities" -> Len(model.capabilities)
          [] field = "versions" -> Len(model.versions)
          [] field = "size" ->
                IF aSizes /= {} THEN CHOOSE x \in aSizes : \A y \in aSizes : x <= y ELSE 0
          [] field = "context" ->
                IF aContexts /= {} THEN CHOOSE x \in aContexts : \A y \in aContexts : x >= y
                ELSE 0

CompareAscending(a, b, field, direction) ==
    LET aValue == SortValue(a, field)
        bValue == SortValue(b, field)
        less(x, y) == IF field = "name" THEN StringLess(x, y) ELSE x < y
    IN  IF less(aValue, bValue) THEN 0 - 1
        ELSE IF less(bValue, aValue) THEN 1
        ELSE 0

\* the comparator handed to sort
Compare(a, b, field, direction) ==
    LET aValue == SortValue(a, field)
        bValue == SortValue(b, field)
        less(x, y) == IF field = "name" THEN StringLess(x, y) ELSE x < y
    IN  IF less(aValue, bValue) THEN (IF direction = "asc" THEN 0 - 1 ELSE 1)
        ELSE IF less(bValue, aValue) THEN (IF direction = "asc" THEN 1 ELSE 0 - 1)
        ELSE 0

\* Array.prototype.sort with a consistent comparator: the stable order, in
\* which an element comes after those the comparator puts before it and
\* after the equal ones that preceded it in the list
SortModels(list, field, direction) ==
    [k \in 1..Len(list) |->
        list[CHOOSE i \in 1..Len(list) :
                Cardinality({j \in 1..Len(list) :
                    \/ Compare(list[j], list[i], field, direction) < 0
                    \/ (Compare(list[j], list[i], field, direction) = 0 /\ j < i)})
                    = k - 1]]

\* models.filter(...): the predicate
PassesFilter(model, term, capabilityFilter) ==
    LET searchLower == ToLowerCase(term)
        isSmallestSearch == \/ Includes(searchLower, <<"s", "m", "a", "l", "l">>)
                            \/ Includes(searchLower, <<"t", "i", "n", "y">>)
        isLargestSearch == \/ Includes(searchLower, <<"l", "a", "r", "g", "e">>)
                           \/ Includes(searchLower, <<"b", "i", "g">>)
        isLatestSearch == \/ Includes(searchLower, <<"l", "a", "t", "e", "s", "t">>)
                          \/ Includes(searchLower, <<"n", "e", "w", "e", "s", "t">>)
                          \/ Includes(searchLower, <<"r", "e", "c", "e", "n", "t">>)
        isContextSearch == Includes(searchLower, <<"c", "o", "n", "t", "e", "x", "t">>)
        nameMatch == Includes(ToLowerCase(model.name), searchLower)
        descMatch == Includes(ToLowerCase(model.description), searchLower)
        capMatch == \E i \in 1..Len(model.capabilities) :
                        Includes(ToLowerCase(model.capabilities[i]), searchLower)
        hasLatest == \E i \in 1..Len(model.versions) : model.versions[i].isLatest
        hasVersions == Len(model.versions) > 0
        passesCapabilityFilter ==
            \/ capabilityFilter = NoElem
            \/ capabilityFilter = <<>>
            \/ \E i \in 1..Len(model.capabilities) :
                   ToLowerCase(model.capabilities[i]) = capabilityFilter
    IN  /\ passesCapabilityFilter
        /\ \/ nameMatch \/ descMatch \/ capMatch
           \/ (isSmallestSearch /\ hasVersions)
           \/ (isLargestSearch /\ hasVersions)
           \/ (isContextSearch /\ hasVersions)
           \/ (isLatestSearch /\ hasLatest)

\* models.filter(...)
RECURSIVE FilterModels(_, _, _)
FilterModels(list, term, capabilityFilter) ==
    IF list = <<>> THEN <<>>
    ELSE (IF PassesFilter(Head(list), term, capabilityFilter) THEN <<Head(list)>> ELSE <<>>)
            \o FilterModels(Tail(list), term, capabilityFilter)

\* filteredAndSortedModels: the rows the table shows
FilteredAndSortedModels ==
    SortModels(FilterModels(tableModels, searchTerm, activeCapabilityFilter),
               sortField, sortDirection)

\* allCapabilities: the filter buttons
AllCapabilities ==
    UNION {{ToLowerCase(tableModels[i].capabilities[j]) :
                j \in 1..Len(tableModels[i].capabilities)} : i \in 1..Len(tableModels)}

\* allCapabilities.slice(0, 8) of the sorted capabilities: the buttons shown
CapabilityButtons ==
    {c \in AllCapabilities : Cardinality({d \in AllCapabilities : StringLess(d, c)}) < 8}

\* Models the page may load
Version(size, context, isLatest) == [size |-> size, context |-> context, isLatest |-> isLatest]

TableModel(name, capabilities, versions) ==
    [name |-> name, description |-> <<"x">>, capabilities |-> capabilities,
     versions |-> versions]

TableModelChoices ==
    { TableModel(<<"A", "b">>, << <<"V">> >>,
                 << Version(<<"4", ".", "7", "G", "B">>, <<"1", "2", "8", "K">>, TRUE),
                    Version(<<"1", "T", "B">>, <<"1", "M">>, FALSE) >>),
      TableModel(<<"b">>, << <<"v">>, <<"t">> >>,
                 << Version(<<"5", "0", "0", "K", "B">>, <<"8", "1", "9", "2">>, FALSE) >>),
      TableModel(<<"a">>, << <<>> >>, <<>>),
      TableModel(<<"B">>, << <<"t">> >>,
                 << Version(<<"N", "/", "A">>, <<>>, FALSE),
                    Version(<<"2", "G", "B">>, <<"3", "2", "k">>, FALSE) >>) }

SearchTerms == {<<>>, <<"A">>, <<"s", "m", "a", "l", "l">>}

InitHome ==
    /\ UiIdle
    /\ DetailIdle
    /\ LimitIdle
    /\ ProxyIdle
    /\ ListIdle
    /\ SysIdle

\* the fetch of the effect settles: setModels(data.models || []), or nothing
\* when it fails, and the page stops loading
LoadModels(loaded) ==
    /\ initialLoading
    /\ tableModels' = loaded
    /\ initialLoading' = FALSE
    /\ UNCHANGED <<searchTerm, sortField, sortDirection, activeCapabilityFilter, clicks>>
    /\ UNCHANGED <<detailVars, limitVars, proxyVars, listVars, sysVars>>

HandleSortKeepDirection(field) ==
    /\ ~initialLoading
    /\ Len(clicks) < MaxClicks
    /\ IF sortField = field
       THEN /\ sortDirection' = IF sortDirection = "asc" THEN "desc" ELSE "asc"
            /\ sortField' = sortField
       ELSE /\ sortField' = field
            /\ sortDirection' = sortDirection
    /\ clicks' = Append(clicks, [field |-> field, sortField |-> sortField',
                                 sortDirection |-> sortDirection'])
    /\ UNCHANGED <<initialLoading, tableModels, searchTerm, activeCapabilityFilter>>
    /\ UNCHANGED <<detailVars, limitVars, proxyVars, listVars, sysVars>>

\* handleSort(field): a click on a header
HandleSort(field) ==
    /\ ~initialLoading
    /\ Len(clicks) < MaxClicks
    /\ IF sortField = field
       THEN /\ sortDirection' = IF sortDirection = "asc" THEN "desc" ELSE "asc"
            /\ sortField' = sortField
       ELSE /\ sortField' = field
            /\ sortDirection' = "asc"
    /\ clicks' = Append(clicks, [field |-> field, sortField |-> sortField',
                                 sortDirection |-> sortDirection'])
    /\ UNCHANGED <<initialLoading, tableModels, searchTerm, activeCapabilityFilter>>
    /\ UNCHANGED <<detailVars, limitVars, proxyVars, listVars, sysVars>>

\* onChange of the search input
SetSearchTerm(term) ==
    /\ ~initialLoading
    /\ searchTerm /= term
    /\ searchTerm' = term
    /\ UNCHANGED <<initialLoading, tableModels, sortField, sortDirection,
                   activeCapabilityFilter, clicks>>
    /\ UNCHANGED <<detailVars, limitVars, proxyVars, listVars, sysVars>>

\* a click on the button of a capability
ToggleCapability(capability) ==
    /\ ~initialLoading
    /\ capability \in CapabilityButtons
    /\ activeCapabilityFilter' =
          IF capability = activeCapabilityFilter THEN NoElem ELSE capability
    /\ UNCHANGED <<initialLoading, tableModels, searchTerm, sortField, sortDirection, clicks>>
    /\ UNCHANGED <<detailVars, limitVars, proxyVars, listVars, sysVars>>

\* a click on "All"
ShowAll ==
    /\ ~initialLoading
    /\ activeCapabilityFilter /= NoElem
    /\ activeCapabilityFilter' = NoElem
    /\ UNCHANGED <<initialLoading, tableModels, searchTerm, sortField, sortDirection, clicks>>
    /\ UNCHANGED <<detailVars, limitVars, proxyVars, listVars, sysVars>>

\* a click on "Clear Filters", shown when no model matches
ClearFilters ==
    /\ ~initialLoading
    /\ FilteredAndSortedModels = <<>>
    /\ searchTerm /= <<>> \/ activeCapabilityFilter /= NoElem
    /\ searchTerm' = <<>>
    /\ activeCapabilityFilter' = NoElem
    /\ UNCHANGED <<initialLoading, tableModels, sortField, sortDirection, clicks>>
    /\ UNCHANGED <<detailVars, limitVars, proxyVars, listVars, sysVars>>

NextHome ==
    \/ \E loaded \in SeqsUpTo(TableModelChoices, MaxTableModels) : LoadModels(loaded)
    \/ \E field \in {"name", "versions", "size", "context"} : HandleSort(field)
    \/ \E term \in SearchTerms : SetSearchTerm(term)
    \/ \E capability \in {<<>>, <<"t">>, <<"v">>} : ToggleCapability(capability)
    \/ ShowAll
    \/ ClearFilters

SpecHome == InitHome /\ [][NextHome]_vars

\* the order of the keys: of lower-cased names the order of their code units,
\* of numbers the usual one
KeyAtMost(x, y, field) ==
    IF field = "name" THEN x = y \/ StringLess(x, y) ELSE x <= y

\* C11: for every sort field (name, versions, size, context) and direction
\* the rows shown are the filtered models ordered by the key of that field
\* (lower-cased name, number of versions, smallest positive parsed size,
\* largest positive parsed context): non-decreasing when the direction is
\* 'asc', non-increasing when it is 'desc'.
SortedByKey ==
    LET shown == FilteredAndSortedModels
    IN  /\ sortField \in {"name", "versions", "size", "context"}
        /\ Len(shown) = Len(FilterModels(tableModels, searchTerm, activeCapabilityFilter))
        /\ \A i \in 1..(Len(shown) - 1) :
              IF sortDirection = "asc"
              THEN KeyAtMost(SortValue(shown[i], sortField),
                             SortValue(shown[i + 1], sortField), sortField)
              ELSE KeyAtMost(SortValue(shown[i + 1], sortField),
                             SortValue(shown[i], sortField), sortField)

\* C11 witness: sorted by size, descending, two rows with different keys are
\* shown in the order opposite to the one they were loaded in
SortedByKeyWitness ==
    /\ sortField = "size"
    /\ sortDirection = "desc"
    /\ Len(tableModels) = 2
    /\ FilteredAndSortedModels = <<tableModels[2], tableModels[1]>>
    /\ SortValue(tableModels[1], "size") < SortValue(tableModels[2], "size")
    /\ SortValue(tableModels[1], "size") > 0

\* C12: whenever a capability filter is active (activeCapabilityFilter is
\* not null), every model shown has a capability equal to the filter
\* ignoring case, whatever the search term; and the models shown are always
\* a sub-collection of the loaded models.
CapabilityFilterHolds ==
    LET shown == FilteredAndSortedModels
    IN  /\ activeCapabilityFilter /= NoElem =>
               \A i \in 1..Len(shown) :
                   \E j \in 1..Len(shown[i].capabilities) :
                       ToLowerCase(shown[i].capabilities[j]) = activeCapabilityFilter
        /\ \A m \in TableModelChoices :
               Cardinality({i \in 1..Len(shown) : shown[i] = m})
                   <= Cardinality({i \in 1..Len(tableModels) : tableModels[i] = m})

\* the sort field and the direction before the k-th click on a header
FieldBefore(k) == IF k = 1 THEN "name" ELSE clicks[k - 1].sortField
DirectionBefore(k) == IF k = 1 THEN "asc" ELSE clicks[k - 1].sortDirection

\* what every click on a header does: the sort field becomes the header
\* clicked, the direction 'asc' if the header was not the sort field and the
\* opposite of the previous direction if it was
ClickRule(k) ==
    /\ clicks[k].sortField = clicks[k].field
    /\ clicks[k].sortDirection =
          IF FieldBefore(k) /= clicks[k].field THEN "asc"
          ELSE IF DirectionBefore(k) = "asc" THEN "desc" ELSE "asc"

\* C19 (as stated): after handleSort(f) the sort field is f, the direction is
\* 'asc' if f was not the previous sort field and the opposite of the
\* previous direction if it was; so two consecutive clicks on the same header
\* restore the direction, and the sort field is always the last header
\* clicked.
TwoClicksRestore ==
    /\ \A k \in 1..Len(clicks) : ClickRule(k)
    /\ \A k \in 2..Len(clicks) :
          clicks[k].field = clicks[k - 1].field =>
              clicks[k].sortDirection = DirectionBefore(k - 1)
    /\ clicks /= <<>> => sortField = clicks[Len(clicks)].field

\* C19 (amended): after handleSort(f) the sort field is f, the direction is
\* 'asc' if f was not the previous sort field and the opposite of the
\* previous direction if it was; so two consecutive clicks on the header
\* that already is the sort field restore the direction, and the sort field
\* is always the last header clicked.
TwoClicksOnSortFieldRestore ==
    /\ \A k \in 1..Len(clicks) : ClickRule(k)
    /\ \A k \in 2..Len(clicks) :
          (clicks[k].field = clicks[k - 1].field /\ FieldBefore(k - 1) = clicks[k].field) =>
              clicks[k].sortDirection = DirectionBefore(k - 1)
    /\ clicks /= <<>> =>
          /\ sortField = clicks[Len(clicks)].field
          /\ sortDirection = clicks[Len(clicks)].sortDirection

\* C19 witness: a click on 'size' made it the sort field, ascending, and two
\* further clicks on it brought the direction back to ascending
TwoClicksOnSortFieldRestoreWitness ==
    /\ Len(clicks) = 3
    /\ \A k \in 1..3 : clicks[k].field = "size"
    /\ clicks[2].sortDirection = "desc"
    /\ sortField = "size"
    /\ sortDirection = "asc"

====
